---------------------------- MODULE Spec2Model ----------------------------
(***************************************************************************)
(* A model of rctclient/utils.py: the CRC16 checksum, encode_value and     *)
(* decode_value.                                                           *)
(*                                                                         *)
(* Python integers are unbounded and the 32-bit wire types reach 2^32 - 1, *)
(* which is beyond TLC's integers.  An integer v is therefore held as a    *)
(* pair <<hi, lo>> with v = hi * 2^16 + lo and 0 <= lo < 2^16 (hi is the   *)
(* floor of v / 2^16, so it is negative for a negative v).  The CRC        *)
(* accumulator never leaves 17 bits and is a plain integer.                *)
(***************************************************************************)
EXTENDS Integers, Sequences, FiniteSets, TLC

VARIABLES
    pc,         \* the position of the running call
    data,       \* CRC16 / decode_value: the argument `data`, a sequence of bytes
    buffer,     \* CRC16: the local bytearray `buffer`
    idx,        \* CRC16: how many bytes of `buffer` the for loop has taken
    bit,        \* CRC16: the inner loop's `bit`
    crcsum,     \* CRC16: the local `crcsum`
    data_type,  \* encode_value / decode_value: the argument `data_type`
    value,      \* encode_value: the argument `value`
    encoded,    \* the outcome of encode_value(data_type, value)
    decoded,    \* the outcome of decode_value(data_type, encoded bytes)
    tz,         \* the process's local time zone, read by datetime.fromtimestamp
    ts,         \* decode_value: the local `ts` (the anchor)
    tabval,     \* decode_value: the local dict `tsval` / `tabval`, in insertion order
    pair,       \* decode_value: the loop variable `pair`
    reads,      \* decode_value: the slices data[a:b] the loop has taken, in order
    entries,    \* decode_value: the EventEntry built by each loop iteration, in order
    result      \* what the call returned or raised

vars == <<pc, data, buffer, idx, bit, crcsum, data_type, value, encoded,
          decoded, tz, ts, tabval, pair, reads, entries, result>>

crcVars == <<data, buffer, idx, bit, crcsum>>
codecVars == <<data_type, value, encoded, decoded>>
tableVars == <<tz, ts, tabval, pair, reads, entries>>

(***************************************************************************)
(* Bit operations on naturals.                                             *)
(***************************************************************************)
RECURSIVE BitAnd(_, _)
BitAnd(a, b) ==
    IF a = 0 \/ b = 0 THEN 0
    ELSE (a % 2) * (b % 2) + 2 * BitAnd(a \div 2, b \div 2)

RECURSIVE BitXor(_, _)
BitXor(a, b) ==
    IF a = 0 THEN b
    ELSE IF b = 0 THEN a
    ELSE ((a + b) % 2) + 2 * BitXor(a \div 2, b \div 2)

\* Python's None.  Where a field may hold None, a present value x is <<x>>.
None == <<>>

(***************************************************************************)
(* Outcomes of a call: a returned value, or a raised exception.            *)
(***************************************************************************)
Returned(v) == [exc |-> "none", val |-> v]
Raised(e) == [exc |-> e, val |-> <<>>]
NotCalled == [exc |-> "pending", val |-> <<>>]

(***************************************************************************)
(* CRC16                                                                   *)
(***************************************************************************)
crc_seed == 65535
polynom == 4129
crc_overflow_mask == 2147418112
crc_low_mask == 65535

\* The docstring's reading of the odd-length rule: drop the first byte.
crc_buffer_skip_start(d) == IF Len(d) % 2 = 1 THEN Tail(d) ELSE d

\* buffer = bytearray(data); if len(data) & 0x01: buffer.append(0)
crc_buffer(d) == IF BitAnd(Len(d), 1) # 0 THEN Append(d, 0) ELSE d

\* The test with bit 16 left out of the mask.
crc_overflow_above16(c) == BitAnd(c, crc_overflow_mask - 65536) # 0

\* if crcsum & 0x7FFF0000
crc_overflow(c) == BitAnd(c, crc_overflow_mask) # 0

\* crcsum = (crcsum & 0x0000FFFF) ^ polynom
crc_reduce(c) == BitXor(BitAnd(c, crc_low_mask), polynom)

\* One pass of the inner loop's body.
crc_bit(c) == LET s == c * 2 IN IF crc_overflow(s) THEN crc_reduce(s) ELSE s

\* for bit in range(8): the last n passes.  (The test next >= 0 is always
\* true; it makes TLC compute `next` before it recurses.)
RECURSIVE crc_bits(_, _)
crc_bits(c, n) ==
    IF n = 0 THEN c
    ELSE LET next == crc_bit(c) IN IF next >= 0 THEN crc_bits(next, n - 1) ELSE next

\* One pass of the outer loop's body.
crc_byte(c, byte) == crc_bits(BitXor(c, byte * 256), 8)

\* for byte in buffer
RECURSIVE crc_fold(_, _)
crc_fold(c, b) ==
    IF b = <<>> THEN c
    ELSE LET next == crc_byte(c, Head(b)) IN IF next >= 0 THEN crc_fold(next, Tail(b)) ELSE next

\* CRC16 as a function of its argument.
CRC16(d) == crc_fold(crc_seed, crc_buffer(d))

MaxCrcLen == 4
CrcBytes == {0, 1, 128, 255}

RECURSIVE SeqsUpTo(_, _)
SeqsUpTo(S, n) ==
    IF n = 0 THEN {<<>>}
    ELSE LET shorter == SeqsUpTo(S, n - 1)
         IN shorter \cup {Append(s, x) : s \in {t \in shorter : Len(t) = n - 1}, x \in S}

Idle ==
    /\ buffer = <<>> /\ idx = 0 /\ bit = 0 /\ crcsum = 0
    /\ data_type = "NONE" /\ value = <<0, 0>>
    /\ encoded = NotCalled /\ decoded = NotCalled
    /\ tz = "UTC" /\ ts = None /\ tabval = <<>> /\ pair = 0
    /\ reads = <<>> /\ entries = <<>>
    /\ result = NotCalled

InitCRC ==
    /\ pc = "crc_entry"
    /\ data \in SeqsUpTo(CrcBytes, MaxCrcLen)
    /\ Idle

\* lines 18-24
CRCEnter ==
    /\ pc = "crc_entry"
    /\ crcsum' = crc_seed
    /\ buffer' = crc_buffer(data)
    /\ idx' = 0
    /\ pc' = "crc_for"
    /\ UNCHANGED <<data, bit, result>>
    /\ UNCHANGED <<codecVars, tableVars>>

\* lines 26-27: the next byte of the buffer
CRCNextByte ==
    /\ pc = "crc_for"
    /\ idx < Len(buffer)
    /\ crcsum' = BitXor(crcsum, buffer[idx + 1] * 256)
    /\ idx' = idx + 1
    /\ bit' = 0
    /\ pc' = "crc_shift"
    /\ UNCHANGED <<data, buffer, result>>
    /\ UNCHANGED <<codecVars, tableVars>>

\* line 29
CRCShift ==
    /\ pc = "crc_shift"
    /\ crcsum' = crcsum * 2
    /\ pc' = "crc_test"
    /\ UNCHANGED <<data, buffer, idx, bit, result>>
    /\ UNCHANGED <<codecVars, tableVars>>

\* lines 30-32, and the inner loop's step
CRCTest ==
    /\ pc = "crc_test"
    /\ crcsum' = IF crc_overflow(crcsum) THEN crc_reduce(crcsum) ELSE crcsum
    /\ bit' = bit + 1
    /\ pc' = IF bit + 1 < 8 THEN "crc_shift" ELSE "crc_for"
    /\ UNCHANGED <<data, buffer, idx, result>>
    /\ UNCHANGED <<codecVars, tableVars>>

\* line 33
CRCReturn ==
    /\ pc = "crc_for"
    /\ idx = Len(buffer)
    /\ result' = Returned(crcsum)
    /\ pc' = "crc_return"
    /\ UNCHANGED <<data, buffer, idx, bit, crcsum>>
    /\ UNCHANGED <<codecVars, tableVars>>

NextCRC == CRCEnter \/ CRCNextByte \/ CRCShift \/ CRCTest \/ CRCReturn

SpecCRC == InitCRC /\ [][NextCRC]_vars

(***************************************************************************)
(* Integers as pairs <<hi, lo>>: the value is hi * 2^16 + lo.              *)
(***************************************************************************)
W(n) == <<n \div 65536, n % 65536>>

WPlus(a, b) ==
    LET s == a[2] + b[2] IN <<a[1] + b[1] + (s \div 65536), s % 65536>>

WNeg(a) == IF a[2] = 0 THEN <<-a[1], 0>> ELSE <<-a[1] - 1, 65536 - a[2]>>

WMinus(a, b) == WPlus(a, WNeg(b))

WLe(a, b) == a[1] < b[1] \/ (a[1] = b[1] /\ a[2] <= b[2])

WLt(a, b) == WLe(a, b) /\ a # b

\* 2^n, for n in 0 .. 40
WPow2(n) == IF n < 16 THEN <<0, 2 ^ n>> ELSE <<2 ^ (n - 16), 0>>

Reverse(s) == [i \in 1 .. Len(s) |-> s[Len(s) + 1 - i]]

\* data[a:b] of Python: the bounds are clipped to the sequence
Slice(s, a, b) ==
    LET lo == IF a > Len(s) THEN Len(s) ELSE a
        hi == IF b > Len(s) THEN Len(s) ELSE b
    IN IF hi <= lo THEN <<>> ELSE SubSeq(s, lo + 1, hi)

(***************************************************************************)
(* struct.pack and struct.unpack for the integer formats b B h H i I with  *)
(* a byte order prefix "<" or ">".                                         *)
(***************************************************************************)
FmtSize(code) ==
    CASE code \in {"b", "B"} -> 1
      [] code \in {"h", "H"} -> 2
      [] code \in {"i", "I"} -> 4

FmtSigned(code) == code \in {"b", "h", "i"}

FmtMin(code) == IF FmtSigned(code) THEN WNeg(WPow2(8 * FmtSize(code) - 1)) ELSE W(0)

FmtMax(code) ==
    IF FmtSigned(code) THEN WMinus(WPow2(8 * FmtSize(code) - 1), W(1))
    ELSE WMinus(WPow2(8 * FmtSize(code)), W(1))

\* The four big-endian bytes of v modulo 2^32.
BE4(v) ==
    LET h == v[1] % 65536
    IN <<h \div 256, h % 256, v[2] \div 256, v[2] % 256>>

\* The unsigned value of up to four big-endian bytes.
FromBE(b) ==
    LET p == [i \in 1 .. 4 |-> IF i <= 4 - Len(b) THEN 0 ELSE b[i - (4 - Len(b))]]
    IN <<p[1] * 256 + p[2], p[3] * 256 + p[4]>>

\* A pack that keeps the low bits of a value that does not fit.
StructPackWrapping(order, code, v) ==
    LET be == SubSeq(BE4(v), 5 - FmtSize(code), 4)
    IN Returned(IF order = "<" THEN Reverse(be) ELSE be)

\* struct.pack(order + code, v) for an integer v
StructPack(order, code, v) ==
    IF ~(WLe(FmtMin(code), v) /\ WLe(v, FmtMax(code))) THEN Raised("struct.error")
    ELSE LET be == SubSeq(BE4(v), 5 - FmtSize(code), 4)
         IN Returned(IF order = "<" THEN Reverse(be) ELSE be)

\* struct.unpack(order + code, b)[0]
StructUnpack(order, code, b) ==
    IF Len(b) # FmtSize(code) THEN Raised("struct.error")
    ELSE LET u == FromBE(IF order = "<" THEN Reverse(b) ELSE b)
             half == WPow2(8 * FmtSize(code) - 1)
         IN Returned(IF FmtSigned(code) /\ WLe(half, u)
                     THEN WMinus(u, WPow2(8 * FmtSize(code)))
                     ELSE u)

(***************************************************************************)
(* encode_value and decode_value, integer types.                           *)
(***************************************************************************)
IntTypes == {"UINT8", "INT8", "UINT16", "INT16", "UINT32", "INT32", "ENUM"}
UnsignedTypes == {"UINT8", "UINT16", "UINT32", "ENUM"}

\* The struct format each branch of decode_value unpacks with (and the last
\* pack of the same branch of encode_value packs with).
WireFmt(t) ==
    CASE t = "UINT8" -> "B"
      [] t = "INT8" -> "b"
      [] t = "UINT16" -> "H"
      [] t = "INT16" -> "h"
      [] t = "UINT32" -> "I"
      [] t = "INT32" -> "i"
      [] t = "ENUM" -> "H"

\* The signed format of the same size, which the unsigned branches of
\* encode_value pack with first.
SignedFmt(t) ==
    CASE t = "UINT8" -> "b"
      [] t \in {"UINT16", "ENUM"} -> "h"
      [] t = "UINT32" -> "i"

\* value = struct.unpack('<X', struct.pack('<x', value))[0]; return struct.pack('>X', value)
encode_unsigned(t, v) ==
    LET first == StructPack("<", SignedFmt(t), v)
    IN IF first.exc # "none" THEN first
       ELSE LET again == StructUnpack("<", WireFmt(t), first.val)
            IN IF again.exc # "none" THEN again
               ELSE StructPack(">", WireFmt(t), again.val)

encode_value(t, v) ==
    IF t \in UnsignedTypes THEN encode_unsigned(t, v)
    ELSE IF t \in IntTypes THEN StructPack(">", WireFmt(t), v)
    ELSE Raised("KeyError")

\* The integer branches of decode_value.
decode_value(t, b) ==
    IF t \in IntTypes THEN StructUnpack(">", WireFmt(t), b)
    ELSE Raised("KeyError")

TypeBits(t) == 8 * FmtSize(WireFmt(t))

\* How far around each power of two the values of `value` are drawn.
MaxDelta == 2

\* The values around -2^w, -2^(w-1), 0, 2^(w-1) and 2^w.
ValuesAround(w) ==
    {WPlus(c, W(d)) :
        c \in {WNeg(WPow2(w)), WNeg(WPow2(w - 1)), W(0), WPow2(w - 1), WPow2(w)},
        d \in -MaxDelta .. MaxDelta}

InitCodec ==
    /\ pc = "encode_entry"
    /\ data_type \in IntTypes
    /\ value \in ValuesAround(TypeBits(data_type))
    /\ encoded = NotCalled /\ decoded = NotCalled
    /\ data = <<>> /\ buffer = <<>> /\ idx = 0 /\ bit = 0 /\ crcsum = 0
    /\ tz = "UTC" /\ ts = None /\ tabval = <<>> /\ pair = 0
    /\ reads = <<>> /\ entries = <<>>
    /\ result = NotCalled

\* A call of encode_value(data_type, value)
Encode ==
    /\ pc = "encode_entry"
    /\ encoded' = encode_value(data_type, value)
    /\ pc' = IF encoded'.exc = "none" THEN "decode_entry" ELSE "encode_raised"
    /\ UNCHANGED <<data_type, value, decoded, result>>
    /\ UNCHANGED <<crcVars, tableVars>>

\* A call of decode_value(data_type, b) on the bytes encode_value returned
Decode ==
    /\ pc = "decode_entry"
    /\ decoded' = decode_value(data_type, encoded.val)
    /\ pc' = "decode_done"
    /\ UNCHANGED <<data_type, value, encoded, result>>
    /\ UNCHANGED <<crcVars, tableVars>>

NextCodec == Encode \/ Decode

SpecCodec == InitCodec /\ [][NextCodec]_vars


(***************************************************************************)
(* decode_value, TIMESERIES and EVENT_TABLE.                               *)
(*                                                                         *)
(* datetime.fromtimestamp gives the naive local time of the process's time *)
(* zone.  A datetime is held as the seconds of that wall clock since       *)
(* 1970-01-01 00:00:00 and its fold.  Two zones are modelled: UTC, and     *)
(* Europe/Berlin with its rules for the instants the model draws (before   *)
(* 1980, and the year 2020: summer time from 2020-03-29 01:00 UTC to       *)
(* 2020-10-25 01:00 UTC).                                                  *)
(***************************************************************************)
Zones == {"UTC", "Europe/Berlin"}

BerlinSummer2020 == [from |-> W(1585443600), to |-> W(1603587600)]

UtcOffset(zone, t) ==
    IF zone = "UTC" THEN 0
    ELSE IF WLe(BerlinSummer2020.from, t) /\ WLt(t, BerlinSummer2020.to) THEN 7200
    ELSE 3600

\* The wall clock hour after summer time ends is passed twice; fold is 1 the
\* second time.
Fold(zone, t) ==
    IF /\ zone # "UTC"
       /\ WLe(BerlinSummer2020.to, t)
       /\ WLt(t, WPlus(BerlinSummer2020.to, W(3600)))
    THEN 1 ELSE 0

\* datetime.fromtimestamp(t)
fromtimestamp(zone, t) ==
    [naive |-> WPlus(t, W(UtcOffset(zone, t))), fold |-> Fold(zone, t)]

\* datetime.__eq__ and __hash__ of naive datetimes: the fold is not compared
SameKey(a, b) == a.naive = b.naive

\* A dict that keeps the first value stored under a key.
DictSetFirstWins(d, k, v) ==
    IF \E i \in 1 .. Len(d) : SameKey(d[i].key, k) THEN d
    ELSE Append(d, [key |-> k, val |-> v])

\* d[k] = v on a dict held as its items in insertion order
DictSet(d, k, v) ==
    IF \E i \in 1 .. Len(d) : SameKey(d[i].key, k)
    THEN [i \in 1 .. Len(d) |-> IF SameKey(d[i].key, k) THEN [d[i] EXCEPT !.val = v] ELSE d[i]]
    ELSE Append(d, [key |-> k, val |-> v])

\* struct.unpack('>f', b)[0]: the sign, exponent and fraction of the single
UnpackFloat(b) ==
    IF Len(b) # 4 THEN Raised("struct.error")
    ELSE Returned([sign |-> b[1] \div 128,
                   exponent |-> (b[1] % 128) * 2 + (b[2] \div 128),
                   fraction |-> (b[2] % 128) * 65536 + b[3] * 256 + b[4]])

\* int(len(data) / 4 - 1): float division, then truncation towards zero
RangeStop(n) == IF n = 0 THEN -1 ELSE IF n < 4 THEN 0 ELSE (n \div 4) - 1

\* The first assert of either branch.
DivisibleBy4(n) == n % 4 = 0

\* The TIMESERIES branch without its second assert.
ts_pairs_unchecked(n) == TRUE

\* int(len(data) / 4 % 2) == 1
ts_pairs_ok(n) == (n \div 4) % 2 = 1

\* The EVENT_TABLE branch without its second assert.
et_slots_unchecked(n) == TRUE

\* (len(data) - 4) % 20 == 0
et_slots_ok(n) == (n - 4) % 20 = 0

\* ts = datetime.fromtimestamp(struct.unpack('>I', data[0:4])[0])
decode_anchor(zone, d) ==
    LET u == StructUnpack(">", "I", Slice(d, 0, 4))
    IN IF u.exc # "none" THEN u ELSE Returned(fromtimestamp(zone, u.val))

\* One pass of the TIMESERIES loop: the (pair_ts, pair_val) it reads.
ts_sample(zone, d, p) ==
    LET t == StructUnpack(">", "I", Slice(d, 4 + p * 4, 4 + p * 4 + 4))
        f == UnpackFloat(Slice(d, 4 + p * 4 + 4, 4 + p * 4 + 4 + 4))
    IN IF t.exc # "none" THEN t
       ELSE IF f.exc # "none" THEN f
       ELSE Returned([pair_ts |-> fromtimestamp(zone, t.val), pair_val |-> f.val])

ts_reads(p) == << <<4 + p * 4, 4 + p * 4 + 4>>, <<4 + p * 4 + 4, 4 + p * 4 + 4 + 4>> >>

\* EventEntry(entry_type, timestamp, message_id, timestamp_end=None,
\*            value_old=None, value_new=None) of rctclient/types.py
EventEntry(kw) ==
    [entry_type |-> kw.entry_type,
     timestamp |-> kw.timestamp,
     message_id |-> kw.message_id,
     timestamp_end |-> IF "timestamp_end" \in DOMAIN kw THEN <<kw.timestamp_end>> ELSE None,
     value_old |-> IF "value_old" \in DOMAIN kw THEN <<kw.value_old>> ELSE None,
     value_new |-> IF "value_new" \in DOMAIN kw THEN <<kw.value_new>> ELSE None]

\* A decode that takes any byte value as a character (latin-1).
entry_type_latin1(w) ==
    IF ~(WLe(W(0), w) /\ WLe(w, W(255))) THEN Raised("ValueError")
    ELSE Returned(<<w[2]>>)

\* bytes([w]).decode('ascii'): a str, held as its code points
entry_type_of(w) ==
    IF ~(WLe(W(0), w) /\ WLe(w, W(255))) THEN Raised("ValueError")
    ELSE IF w[2] >= 128 THEN Raised("UnicodeDecodeError")
    ELSE Returned(<<w[2]>>)

\* The word at data[4 + pair * 4 + off : 4 + pair * 4 + off + 4]
et_word(d, p, off) == StructUnpack(">", "I", Slice(d, 4 + p * 4 + off, 4 + p * 4 + off + 4))

\* The else branch reading the message id where the 's'/'w' branch has it.
et_other_msgid_at8(zone, d, p, etype, stamp) ==
    LET e == et_word(d, p, 12)
        m == et_word(d, p, 8)
    IN IF e.exc # "none" THEN e
       ELSE IF m.exc # "none" THEN m
       ELSE Returned(EventEntry([timestamp |-> stamp, message_id |-> m.val,
                                 entry_type |-> etype,
                                 timestamp_end |-> fromtimestamp(zone, e.val)]))

\* lines 142-146: entry_type in ['s', 'w']
et_changed(d, p, etype, stamp) ==
    LET m == et_word(d, p, 8)
        o == et_word(d, p, 12)
        n == et_word(d, p, 16)
    IN IF m.exc # "none" THEN m
       ELSE IF o.exc # "none" THEN o
       ELSE IF n.exc # "none" THEN n
       ELSE Returned(EventEntry([timestamp |-> stamp, message_id |-> m.val,
                                 entry_type |-> etype,
                                 value_old |-> o.val, value_new |-> n.val]))

\* lines 148-152: any other entry_type
et_other(zone, d, p, etype, stamp) ==
    LET e == et_word(d, p, 12)
        m == et_word(d, p, 16)
    IN IF e.exc # "none" THEN e
       ELSE IF m.exc # "none" THEN m
       ELSE Returned(EventEntry([timestamp |-> stamp, message_id |-> m.val,
                                 entry_type |-> etype,
                                 timestamp_end |-> fromtimestamp(zone, e.val)]))

\* One pass of the EVENT_TABLE loop: the EventEntry it builds.
et_entry(zone, d, p) ==
    LET w0 == et_word(d, p, 0)
    IN IF w0.exc # "none" THEN w0
       ELSE LET etype == entry_type_of(w0.val)
            IN IF etype.exc # "none" THEN etype
               ELSE LET w1 == et_word(d, p, 4)
                    IN IF w1.exc # "none" THEN w1
                       ELSE IF etype.val \in {<<115>>, <<119>>}
                            THEN et_changed(d, p, etype.val, fromtimestamp(zone, w1.val))
                            ELSE et_other(zone, d, p, etype.val, fromtimestamp(zone, w1.val))

\* The slices one pass of the EVENT_TABLE loop takes when nothing raises.
et_reads(d, p) ==
    LET at(off) == <<4 + p * 4 + off, 4 + p * 4 + off + 4>>
        w0 == et_word(d, p, 0)
    IN IF w0.exc = "none" /\ entry_type_of(w0.val).exc = "none"
       THEN IF entry_type_of(w0.val).val \in {<<115>>, <<119>>}
            THEN <<at(0), at(4), at(8), at(12), at(16)>>
            ELSE <<at(0), at(4), at(12), at(16)>>
       ELSE <<at(0)>>


(***************************************************************************)
(* The buffers decode_value is called with: some 32-bit words, big-endian, *)
(* followed by up to three more bytes.                                     *)
(***************************************************************************)
AnchorWords == {W(1000)}

\* 1000 s, and the two instants an hour apart that Europe/Berlin shows as
\* 2020-10-25 02:00:00
StampWords == {W(1000), W(1603584000), W(1603587600)}

\* 3.5 and -1.0
FloatWords == {<<16480, 0>>, <<49024, 0>>}

TsWordsAt(i) ==
    IF i = 1 THEN AnchorWords ELSE IF i % 2 = 0 THEN StampWords ELSE FloatWords

\* 'c', 's', 'w', DEL, the first code past ASCII, and 's' in the low byte of
\* a word with a higher byte set
TypeWords == {W(99), W(115), W(119), W(127), W(128), <<1, 115>>}

EtStampWords == {W(1603584000), W(1603587600)}

EtWordsAt(i) ==
    IF i = 1 THEN AnchorWords
    ELSE CASE (i - 2) % 5 = 0 -> TypeWords
           [] (i - 2) % 5 = 1 -> EtStampWords
           [] (i - 2) % 5 = 2 -> {W(5), W(6)}
           [] (i - 2) % 5 = 3 -> {W(10)}
           [] (i - 2) % 5 = 4 -> {W(20)}

\* The words drawn for the i-th word of a buffer of type t.
WordsAt(t, i) == IF t = "TIMESERIES" THEN TsWordsAt(i) ELSE EtWordsAt(i)

RECURSIVE WordSeqs(_, _)
WordSeqs(t, n) ==
    IF n = 0 THEN {<<>>}
    ELSE LET shorter == WordSeqs(t, n - 1)
         IN shorter \cup {Append(s, w) : s \in {x \in shorter : Len(x) = n - 1},
                                          w \in WordsAt(t, n)}

RECURSIVE Flatten(_)
Flatten(ws) == IF ws = <<>> THEN <<>> ELSE BE4(Head(ws)) \o Flatten(Tail(ws))

Tails == {<<>>, <<0>>, <<0, 0>>, <<0, 0, 0>>}

Buffers(t, n) == {Flatten(ws) \o tail : ws \in WordSeqs(t, n), tail \in Tails}

MaxTsWords == 7

MaxEtWords == 11

InitTimeseries ==
    /\ pc = "ts_entry"
    /\ data_type = "TIMESERIES"
    /\ data \in Buffers("TIMESERIES", MaxTsWords)
    /\ tz \in Zones
    /\ ts = None /\ tabval = <<>> /\ pair = 0 /\ reads = <<>> /\ entries = <<>>
    /\ buffer = <<>> /\ idx = 0 /\ bit = 0 /\ crcsum = 0
    /\ value = <<0, 0>> /\ encoded = NotCalled /\ decoded = NotCalled
    /\ result = NotCalled

Raise(e) ==
    /\ pc' = "raised"
    /\ result' = Raised(e)

\* line 124
TSAnchor ==
    /\ pc = "ts_entry"
    /\ LET a == decode_anchor(tz, data)
       IN IF a.exc # "none"
          THEN Raise(a.exc) /\ UNCHANGED ts
          ELSE ts' = a.val /\ pc' = "ts_assert4" /\ UNCHANGED result
    /\ UNCHANGED <<tz, tabval, pair, reads, entries>>
    /\ UNCHANGED <<crcVars, codecVars>>

\* lines 125-126
TSAssert4 ==
    /\ pc = "ts_assert4"
    /\ tabval' = <<>>
    /\ IF DivisibleBy4(Len(data))
       THEN pc' = "ts_assert_pairs" /\ UNCHANGED result
       ELSE Raise("AssertionError")
    /\ UNCHANGED <<tz, ts, pair, reads, entries>>
    /\ UNCHANGED <<crcVars, codecVars>>

\* line 127, and the start of the loop of line 128
TSAssertPairs ==
    /\ pc = "ts_assert_pairs"
    /\ IF ts_pairs_ok(Len(data))
       THEN pc' = "ts_for" /\ pair' = 0 /\ UNCHANGED result
       ELSE Raise("AssertionError") /\ UNCHANGED pair
    /\ UNCHANGED <<tz, ts, tabval, reads, entries>>
    /\ UNCHANGED <<crcVars, codecVars>>

\* lines 128-131: one pass of the loop
TSLoop ==
    /\ pc = "ts_for"
    /\ pair < RangeStop(Len(data))
    /\ reads' = reads \o ts_reads(pair)
    /\ LET smp == ts_sample(tz, data, pair)
       IN IF smp.exc # "none"
          THEN Raise(smp.exc) /\ UNCHANGED <<tabval, pair>>
          ELSE /\ tabval' = DictSet(tabval, smp.val.pair_ts, smp.val.pair_val)
               /\ pair' = pair + 2
               /\ UNCHANGED <<pc, result>>
    /\ UNCHANGED <<tz, ts, entries>>
    /\ UNCHANGED <<crcVars, codecVars>>

\* line 132
TSReturn ==
    /\ pc = "ts_for"
    /\ pair >= RangeStop(Len(data))
    /\ result' = Returned(<<ts, tabval>>)
    /\ pc' = "returned"
    /\ UNCHANGED tableVars
    /\ UNCHANGED <<crcVars, codecVars>>

NextTimeseries == TSAnchor \/ TSAssert4 \/ TSAssertPairs \/ TSLoop \/ TSReturn

SpecTimeseries == InitTimeseries /\ [][NextTimeseries]_vars

InitEventTable ==
    /\ pc = "et_entry"
    /\ data_type = "EVENT_TABLE"
    /\ data \in Buffers("EVENT_TABLE", MaxEtWords)
    /\ tz \in Zones
    /\ ts = None /\ tabval = <<>> /\ pair = 0 /\ reads = <<>> /\ entries = <<>>
    /\ buffer = <<>> /\ idx = 0 /\ bit = 0 /\ crcsum = 0
    /\ value = <<0, 0>> /\ encoded = NotCalled /\ decoded = NotCalled
    /\ result = NotCalled

\* line 134
ETAnchor ==
    /\ pc = "et_entry"
    /\ LET a == decode_anchor(tz, data)
       IN IF a.exc # "none"
          THEN Raise(a.exc) /\ UNCHANGED ts
          ELSE ts' = a.val /\ pc' = "et_assert4" /\ UNCHANGED result
    /\ UNCHANGED <<tz, tabval, pair, reads, entries>>
    /\ UNCHANGED <<crcVars, codecVars>>

\* lines 135-136
ETAssert4 ==
    /\ pc = "et_assert4"
    /\ tabval' = <<>>
    /\ IF DivisibleBy4(Len(data))
       THEN pc' = "et_assert_slots" /\ UNCHANGED result
       ELSE Raise("AssertionError")
    /\ UNCHANGED <<tz, ts, pair, reads, entries>>
    /\ UNCHANGED <<crcVars, codecVars>>

\* line 137, and the start of the loop of line 138
ETAssertSlots ==
    /\ pc = "et_assert_slots"
    /\ IF et_slots_ok(Len(data))
       THEN pc' = "et_for" /\ pair' = 0 /\ UNCHANGED result
       ELSE Raise("AssertionError") /\ UNCHANGED pair
    /\ UNCHANGED <<tz, ts, tabval, reads, entries>>
    /\ UNCHANGED <<crcVars, codecVars>>

\* lines 138-152: one pass of the loop
ETLoop ==
    /\ pc = "et_for"
    /\ pair < RangeStop(Len(data))
    /\ reads' = reads \o et_reads(data, pair)
    /\ LET e == et_entry(tz, data, pair)
       IN IF e.exc # "none"
          THEN Raise(e.exc) /\ UNCHANGED <<tabval, pair, entries>>
          ELSE /\ tabval' = DictSet(tabval, e.val.timestamp, e.val)
               /\ entries' = Append(entries, e.val)
               /\ pair' = pair + 5
               /\ UNCHANGED <<pc, result>>
    /\ UNCHANGED <<tz, ts>>
    /\ UNCHANGED <<crcVars, codecVars>>

\* line 153
ETReturn ==
    /\ pc = "et_for"
    /\ pair >= RangeStop(Len(data))
    /\ result' = Returned(<<ts, tabval>>)
    /\ pc' = "returned"
    /\ UNCHANGED tableVars
    /\ UNCHANGED <<crcVars, codecVars>>

NextEventTable == ETAnchor \/ ETAssert4 \/ ETAssertSlots \/ ETLoop \/ ETReturn

SpecEventTable == InitEventTable /\ [][NextEventTable]_vars


(***************************************************************************)
(* Any one call of the three functions.                                    *)
(***************************************************************************)
Init == InitCRC \/ InitCodec \/ InitTimeseries \/ InitEventTable

Next == NextCRC \/ NextCodec \/ NextTimeseries \/ NextEventTable

Spec == Init /\ [][Next]_vars

(***************************************************************************)
(* The reference CRC-16: polynomial 0x1021, register preset to 0xFFFF,     *)
(* message bits fed most significant first, no final XOR.  It keeps a      *)
(* 16-bit register and takes the message one bit at a time.                *)
(***************************************************************************)
RefBit(reg, msgbit) ==
    LET top == reg \div 32768
        shifted == (reg * 2) % 65536
    IN IF top # msgbit THEN BitXor(shifted, 4129) ELSE shifted

RECURSIVE RefByte(_, _, _)
RefByte(reg, byte, n) ==
    IF n = 0 THEN reg
    ELSE LET next == RefBit(reg, (byte \div (2 ^ (n - 1))) % 2)
         IN IF next >= 0 THEN RefByte(next, byte, n - 1) ELSE next

RECURSIVE RefCRC16(_, _)
RefCRC16(reg, msg) ==
    IF msg = <<>> THEN reg
    ELSE LET next == RefByte(reg, Head(msg), 8)
         IN IF next >= 0 THEN RefCRC16(next, Tail(msg)) ELSE next

RefPadded(d) == IF Len(d) % 2 = 1 THEN d \o <<0>> ELSE d

C4_CrcAccumulatorRange ==
    /\ crcsum \in 0 .. 131071
    /\ pc \in {"crc_for", "crc_shift", "crc_return"} => crcsum \in 0 .. 65535
    /\ pc = "crc_test" => (crc_overflow(crcsum) <=> crcsum >= 65536)
    /\ pc = "crc_return" => result.val \in 0 .. 65535

C4_Witness ==
    /\ pc = "crc_test"
    /\ crcsum >= 65536
    /\ crc_overflow(crcsum)
    /\ idx = 2

(***************************************************************************)
(* The integer types' ranges, and the bytes of a buffer read as words.     *)
(***************************************************************************)
Representable(t, v) ==
    IF t \in UnsignedTypes
    THEN WLe(W(0), v) /\ WLt(v, WPow2(TypeBits(t)))
    ELSE WLe(WNeg(WPow2(TypeBits(t) - 1)), v) /\ WLt(v, WPow2(TypeBits(t) - 1))

FitsNoWidth(t, v) ==
    \/ WLt(v, WNeg(WPow2(TypeBits(t) - 1)))
    \/ IF t \in UnsignedTypes
       THEN WLe(WPow2(TypeBits(t)), v)
       ELSE WLe(WPow2(TypeBits(t) - 1), v)

\* The big-endian bytes of u, 0 <= u < 2^bits.
UnsignedBytes(u, bits) ==
    LET all == <<u[1] \div 256, u[1] % 256, u[2] \div 256, u[2] % 256>>
    IN [i \in 1 .. bits \div 8 |-> all[i + 4 - bits \div 8]]

\* The k-th 32-bit big-endian word of d, counted from 0.
WordAt(d, k) == <<d[4 * k + 1] * 256 + d[4 * k + 2], d[4 * k + 3] * 256 + d[4 * k + 4]>>

SetWord(d, k, w) ==
    [i \in 1 .. Len(d) |-> IF i \in 4 * k + 1 .. 4 * k + 4 THEN BE4(w)[i - 4 * k] ELSE d[i]]

\* C1: for every integer type and every value representable in its width,
\* encode_value succeeds and decode_value gives the value back.
C1_RoundTrip ==
    Representable(data_type, value) =>
        /\ pc # "encode_raised"
        /\ pc = "decode_done" => decoded = Returned(value)

\* C2: for an unsigned type of width w and a negative v in -2^(w-1) .. -1,
\* encode_value of v and of v + 2^w both succeed with the same bytes, the
\* unsigned big-endian encoding of v + 2^w, which decodes to v + 2^w.
C2_UnsignedWrap ==
    (/\ pc \in {"decode_entry", "encode_raised", "decode_done"}
     /\ data_type \in UnsignedTypes
     /\ WLe(WNeg(WPow2(TypeBits(data_type) - 1)), value)
     /\ WLt(value, W(0))) =>
        LET wrapped == WPlus(value, WPow2(TypeBits(data_type)))
        IN /\ encoded = Returned(UnsignedBytes(wrapped, TypeBits(data_type)))
           /\ encode_value(data_type, wrapped) = encoded
           /\ pc = "decode_done" => decoded = Returned(wrapped)

\* C8: for every integer type of width w, a value that w bits cannot hold
\* (below -2^(w-1), or above 2^w - 1 for an unsigned type and 2^(w-1) - 1 for
\* a signed one) makes encode_value raise struct.error; no bytes are returned.
C8_OutOfRangeRaises ==
    (pc # "encode_entry" /\ FitsNoWidth(data_type, value)) =>
        /\ pc = "encode_raised"
        /\ encoded = Raised("struct.error")

C8_Witness ==
    /\ pc = "encode_raised"
    /\ data_type = "UINT32"
    /\ value = <<65536, 0>>
    /\ encoded = Raised("struct.error")

(***************************************************************************)
(* Buffer lengths.                                                         *)
(***************************************************************************)
TsBadLength == Len(data) < 4 \/ Len(data) % 4 # 0 \/ (Len(data) - 4) % 8 # 0

EtBadLength == Len(data) < 4 \/ (Len(data) - 4) % 20 # 0

\* C5: decode_value(TIMESERIES, data) raises, and returns nothing, for every
\* buffer whose length is not divisible by 4 or whose length past the 4-byte
\* anchor is not a multiple of 8 (buffers shorter than 4 bytes included); it
\* raises before the loop reads any sample.
C5_TimeseriesBadLengthRaises ==
    (data_type = "TIMESERIES" /\ TsBadLength) =>
        /\ pc \in {"ts_entry", "ts_assert4", "ts_assert_pairs", "raised"}
        /\ reads = <<>>
        /\ result.exc # "none"
        /\ pc = "raised" => /\ result.exc \in {"struct.error", "AssertionError"}
                            /\ result.val = None

C5_Witness ==
    /\ data_type = "TIMESERIES"
    /\ pc = "raised"
    /\ Len(data) = 8
    /\ result = Raised("AssertionError")
    /\ reads = <<>>

\* C6: decode_value(EVENT_TABLE, data) raises, and returns nothing, for every
\* buffer whose length past the 4-byte anchor is not a multiple of 20 (buffers
\* shorter than 4 bytes included); it raises before the loop reads any entry.
C6_EventTableBadLengthRaises ==
    (data_type = "EVENT_TABLE" /\ EtBadLength) =>
        /\ pc \in {"et_entry", "et_assert4", "et_assert_slots", "raised"}
        /\ reads = <<>>
        /\ entries = <<>>
        /\ result.exc # "none"
        /\ pc = "raised" => /\ result.exc \in {"struct.error", "AssertionError"}
                            /\ result.val = None

C6_Witness ==
    /\ data_type = "EVENT_TABLE"
    /\ pc = "raised"
    /\ Len(data) = 28
    /\ result = Raised("AssertionError")
    /\ entries = <<>>

\* The values bytes 8-11 of a slot are varied over.
OtherIds == {W(0), W(5), W(6), <<65535, 65535>>}

\* C7: in a length-valid EVENT_TABLE buffer the entry built from the i-th
\* 20-byte slot, read as words W0..W4, has entry_type chr(W0) and timestamp
\* W1; for 's' and 'w' it has message_id W2, value_old W3, value_new W4 and no
\* end timestamp; otherwise it has timestamp_end W3, message_id W4, no old or
\* new value, and is the same whatever W2 is.  A returned call has built one
\* entry for every slot.
C7_EventEntryLayout ==
    data_type = "EVENT_TABLE" =>
        /\ \A i \in 1 .. Len(entries) :
            LET k == 1 + 5 * (i - 1)
                e == entries[i]
                W0 == WordAt(data, k)
                W1 == WordAt(data, k + 1)
                W2 == WordAt(data, k + 2)
                W3 == WordAt(data, k + 3)
                W4 == WordAt(data, k + 4)
            IN /\ W0[1] = 0
               /\ e.entry_type = <<W0[2]>>
               /\ e.timestamp = fromtimestamp(tz, W1)
               /\ IF W0[2] \in {115, 119}
                  THEN /\ e.message_id = W2
                       /\ e.value_old = <<W3>>
                       /\ e.value_new = <<W4>>
                       /\ e.timestamp_end = None
                  ELSE /\ e.timestamp_end = <<fromtimestamp(tz, W3)>>
                       /\ e.message_id = W4
                       /\ e.value_old = None
                       /\ e.value_new = None
                       /\ \A w \in OtherIds :
                            et_entry(tz, SetWord(data, k + 2, w), 5 * (i - 1)) = Returned(e)
        /\ pc = "returned" => Len(entries) = (Len(data) - 4) \div 20

C7_Witness ==
    /\ data_type = "EVENT_TABLE"
    /\ pc = "returned"
    /\ Len(entries) = 2
    /\ entries[1].entry_type = <<115>>
    /\ entries[1].value_new = <<W(20)>>
    /\ entries[2].entry_type = <<99>>
    /\ entries[2].message_id = W(20)
    /\ WordAt(data, 8) = W(6)

\* Every slot of the buffer starts with a word in 0..127.
AllTypesAscii ==
    \A i \in 1 .. (Len(data) - 4) \div 20 :
        LET W0 == WordAt(data, 1 + 5 * (i - 1)) IN W0[1] = 0 /\ W0[2] <= 127

\* C10: for an EVENT_TABLE buffer of valid length, decode_value returns if and
\* only if the first word of every 20-byte slot is in 0..127; otherwise it
\* raises and returns no table, also when earlier slots were well-formed.
C10_EventTableAsciiOnly ==
    (data_type = "EVENT_TABLE" /\ ~EtBadLength /\ pc \in {"returned", "raised"}) =>
        /\ pc = "returned" <=> AllTypesAscii
        /\ pc = "returned" => result = Returned(<<ts, tabval>>)
        /\ pc = "raised" => /\ result.exc \in {"ValueError", "UnicodeDecodeError"}
                            /\ result.val = None

C10_Witness ==
    /\ data_type = "EVENT_TABLE"
    /\ pc = "raised"
    /\ Len(data) = 44
    /\ Len(entries) = 1
    /\ result = Raised("UnicodeDecodeError")

\* The i-th sample of a TIMESERIES buffer, counted from 1.
StrideStamp(i) == fromtimestamp(tz, WordAt(data, 2 * i - 1))
StrideFloat(i) ==
    LET w == WordAt(data, 2 * i)
    IN [sign |-> w[1] \div 32768,
        exponent |-> (w[1] \div 128) % 256,
        fraction |-> (w[1] % 128) * 65536 + w[2]]

LastStride(n, t) == CHOOSE j \in 1 .. n :
    /\ SameKey(StrideStamp(j), t)
    /\ \A m \in j + 1 .. n : ~SameKey(StrideStamp(m), t)

=============================================================================
